---- MODULE Spec2Model ----
(***************************************************************************)
(* Model of dit/math/sigmaalgebra.py: sigma algebras on finite sets.       *)
(* The functions of the module are pure; the state machine draws a family  *)
(* C and an optional universe X, calls one function at a time on them and  *)
(* may feed a generated algebra back as the next family.                   *)
(***************************************************************************)
EXTENDS Integers, FiniteSets, Sequences, TLC

\* The universe elements are 1..MaxElem; an input family has at most MaxFam sets.
MaxElem == 3
MaxFam == 2

Elems == 1..MaxElem

VARIABLES C, X, origin, op, ret

vars == <<C, X, origin, op, ret>>

(***************************************************************************)
(* Python values.                                                          *)
(***************************************************************************)

\* The optional argument X=None.
None == [given |-> FALSE, set |-> {}]

Given(S) == [given |-> TRUE, set |-> S]

\* The result of a call: a returned value or the exception that ended it.
NoRet == [tag |-> "none", mat |-> <<>>, xset |-> {}, cols |-> <<>>,
          fam |-> {}, flag |-> FALSE]

Raise(e) == [NoRet EXCEPT !.tag = e]

\* Iteration order of a frozenset of elements: fixed within a call.
RECURSIVE IterElems(_)
IterElems(S) ==
    IF S = {} THEN <<>>
    ELSE LET x == CHOOSE y \in S : \A z \in S : y <= z
         IN <<x>> \o IterElems(S \ {x})

\* Iteration order of a set of frozensets: fixed within a call.
RECURSIVE IterSets(_)
IterSets(F) ==
    IF F = {} THEN <<>>
    ELSE LET s == CHOOSE t \in F : TRUE
         IN <<s>> \o IterSets(F \ {s})

\* frozenset().union(*C)
UnionAll(F) == UNION F

RECURSIVE Pow2(_)
Pow2(n) == IF n = 0 THEN 1 ELSE 2 * Pow2(n - 1)

(***************************************************************************)
(* sets2matrix                                                             *)
(***************************************************************************)

\* The validation loop: some set of C is not a subset of the given X.
NotSuperset_mut(Cset, Xset) == \E cet \in Cset : ~ (Xset \subseteq cet)

NotSuperset(Cset, Xset) == \E cet \in Cset : ~ (cet \subseteq Xset)

sets2matrix(Cin, Xin) ==
    LET Xset == IF Xin.given THEN Xin.set ELSE UnionAll(Cin)
        rows == IterSets(Cin)
        xs   == IterElems(Xset)
    IN IF Xin.given /\ NotSuperset(Cin, Xset)
       THEN Raise("Exception")
       ELSE [NoRet EXCEPT
               !.tag = "ok",
               !.mat = [r \in 1..Len(rows) |->
                          [j \in 1..Len(xs) |->
                             IF xs[j] \in rows[r] THEN 1 ELSE 0]],
               !.xset = Xset]

\* Number of columns of the array np.array(Cmatrix): a list of no rows
\* becomes an array of shape (0,), which has no columns.
NumCols(Cmatrix) == IF Len(Cmatrix) = 0 THEN 0 ELSE Len(Cmatrix[1])

\* Cmatrix.transpose(), iterated: the columns, one tuple per column.
Transpose(Cmatrix) ==
    [j \in 1..NumCols(Cmatrix) |->
       [r \in 1..Len(Cmatrix) |-> Cmatrix[r][j]]]

(***************************************************************************)
(* unique_columns                                                          *)
(***************************************************************************)

\* unique_cols[key].add(idx) on a defaultdict(set), in insertion order.
DictAdd(d, key, idx) ==
    IF \E p \in 1..Len(d) : d[p].key = key
    THEN [p \in 1..Len(d) |->
            IF d[p].key = key
            THEN [d[p] EXCEPT !.val = d[p].val \cup {idx}]
            ELSE d[p]]
    ELSE Append(d, [key |-> key, val |-> {idx}])

RECURSIVE ColumnsLoop(_, _, _)
ColumnsLoop(cols, n, d) ==
    IF n > Len(cols) THEN d
    ELSE ColumnsLoop(cols, n + 1, DictAdd(d, cols[n], n - 1))

\* The columns cut down to their first row.
FirstRow(cols) == [j \in 1..Len(cols) |-> <<cols[j][1]>>]

unique_columns_mut(Cmatrix) ==
    ColumnsLoop(FirstRow(Transpose(Cmatrix)), 1, <<>>)

unique_columns(Cmatrix) ==
    ColumnsLoop(Transpose(Cmatrix), 1, <<>>)

\* The indexes held by the classes of a dictionary of columns.
Indexes(d) == UNION {d[p].val : p \in 1..Len(d)}

(***************************************************************************)
(* sigma_algebra                                                           *)
(***************************************************************************)

\* lookups: column index -> position of its class among unique_cols.values().
Lookups(d) ==
    [index \in Indexes(d) |->
       (CHOOSE p \in 1..Len(d) : index \in d[p].val) - 1]

\* product([0,1], repeat=k)
Product01(k) == [1..k -> {0, 1}]

sigma_algebra(Cin, Xin) ==
    LET m == sets2matrix(Cin, Xin)
    IN IF m.tag # "ok" THEN m
       ELSE LET unique_cols == unique_columns(m.mat)
                lookups == Lookups(unique_cols)
                xs == IterElems(m.xset)
            IN IF \E i \in 0..(Len(xs) - 1) : i \notin DOMAIN lookups
               THEN Raise("KeyError")
               ELSE [NoRet EXCEPT
                       !.tag = "ok",
                       !.xset = m.xset,
                       !.fam =
                         {{xs[i + 1] : i \in {i \in 0..(Len(xs) - 1) :
                                                word[lookups[i] + 1] = 1}} :
                            word \in Product01(Len(unique_cols))}]

(***************************************************************************)
(* is_sigma_algebra, is_sigma_algebra__brute                               *)
(***************************************************************************)

\* m = len(F), less one for the empty set and less one for X when in F.
Adjusted_mut(F, Xset) ==
    Cardinality(F) - (IF {} \in F THEN 1 ELSE 0)

Adjusted(F, Xset) ==
    Cardinality(F) - (IF {} \in F THEN 1 ELSE 0)
                   - (IF Xset \in F THEN 1 ELSE 0)

is_sigma_algebra(F, Xin) ==
    LET m == sets2matrix(F, Xin)
    IN IF m.tag # "ok" THEN m
       ELSE LET unique_cols == unique_columns(m.mat)
            IN [NoRet EXCEPT
                  !.tag = "ok",
                  !.xset = m.xset,
                  !.flag = (Adjusted(F, m.xset) + 2 = Pow2(Len(unique_cols)))]

is_sigma_algebra__brute(F, Xin) ==
    LET Xset == IF Xin.given THEN Xin.set ELSE UnionAll(F)
    IN [NoRet EXCEPT
          !.tag = "ok",
          !.xset = Xset,
          !.flag = \A subset1 \in F :
                      /\ (Xset \ subset1) \in F
                      /\ \A subset2 \in F : (subset1 \cup subset2) \in F]

(***************************************************************************)
(* atom_set                                                                *)
(***************************************************************************)

\* dit.utils.powerset: the subsets by increasing size, the empty one first
\* and the full one last.
RECURSIVE PowersetFrom(_, _)
PowersetFrom(S, r) ==
    IF r > Cardinality(S) THEN <<>>
    ELSE IterSets({T \in SUBSET S : Cardinality(T) = r})
           \o PowersetFrom(S, r + 1)

powerset(S) == PowersetFrom(S, 0)

\* list(...)[1:-1]
Slice1(seq) == SubSeq(seq, 2, Len(seq) - 1)

\* The for/else over the proper nonempty subsets of cet.
NoSubsetIn(cet, F) ==
    LET subsets == Slice1(powerset(cet))
    IN ~ \E p \in 1..Len(subsets) : subsets[p] \in F

atom_set_mut(F, Xin) ==
    IF F = {} THEN Raise("StopIteration")
    ELSE [NoRet EXCEPT
            !.tag = "ok",
            !.fam = {cet \in F : NoSubsetIn(cet, F)}]

atom_set(F, Xin) ==
    IF F = {} THEN Raise("StopIteration")
    ELSE [NoRet EXCEPT
            !.tag = "ok",
            !.fam = {cet \in F : cet # {} /\ NoSubsetIn(cet, F)}]

(***************************************************************************)
(* The callers.                                                            *)
(***************************************************************************)

Families == {F \in SUBSET (SUBSET Elems) : Cardinality(F) <= MaxFam}

Universes == {None} \cup {Given(S) : S \in SUBSET Elems}

NoOrigin == [has |-> FALSE, C |-> {}, X |-> None]

Init ==
    /\ C \in Families
    /\ X \in Universes
    /\ origin = NoOrigin
    /\ op = "none"
    /\ ret = NoRet

Call_sets2matrix ==
    /\ op' = "sets2matrix"
    /\ ret' = sets2matrix(C, X)
    /\ UNCHANGED <<C, X, origin>>

\* unique_columns on the matrix that sets2matrix returned.
Call_unique_columns ==
    /\ sets2matrix(C, X).tag = "ok"
    /\ op' = "unique_columns"
    /\ ret' = [sets2matrix(C, X) EXCEPT
                 !.cols = unique_columns(sets2matrix(C, X).mat)]
    /\ UNCHANGED <<C, X, origin>>

Call_sigma_algebra ==
    /\ op' = "sigma_algebra"
    /\ ret' = sigma_algebra(C, X)
    /\ UNCHANGED <<C, X, origin>>

Call_is_sigma_algebra ==
    /\ op' = "is_sigma_algebra"
    /\ ret' = is_sigma_algebra(C, X)
    /\ UNCHANGED <<C, X, origin>>

Call_is_sigma_algebra__brute ==
    /\ op' = "is_sigma_algebra__brute"
    /\ ret' = is_sigma_algebra__brute(C, X)
    /\ UNCHANGED <<C, X, origin>>

Call_atom_set ==
    /\ op' = "atom_set"
    /\ ret' = atom_set(C, X)
    /\ UNCHANGED <<C, X, origin>>

\* The caller passes the algebra it generated as the next family.
Feed ==
    /\ op = "sigma_algebra"
    /\ ret.tag = "ok"
    /\ C' = ret.fam
    /\ origin' = [has |-> TRUE, C |-> C, X |-> X]
    /\ op' = "none"
    /\ ret' = NoRet
    /\ UNCHANGED X

Next ==
    \/ Call_sets2matrix
    \/ Call_unique_columns
    \/ Call_sigma_algebra
    \/ Call_is_sigma_algebra
    \/ Call_is_sigma_algebra__brute
    \/ Call_atom_set
    \/ Feed

Spec == Init /\ [][Next]_vars

(***************************************************************************)
(* Vocabulary of the properties.                                           *)
(***************************************************************************)

\* The universe a call on (F, Xin) works on.
UniverseOf(F, Xin) == IF Xin.given THEN Xin.set ELSE UNION F

\* Every member of the family is a subset of the universe.
ValidInput(F, Xin) == \A s \in F : s \subseteq UniverseOf(F, Xin)

ClosedOn(F, U) ==
    /\ \A s \in F : (U \ s) \in F
    /\ \A s \in F : \A t \in F : (s \cup t) \in F

IsAlgebraOn(F, U) == {} \in F /\ U \in F /\ ClosedOn(F, U)

\* x and y are in the same sets of F.
SameSets(F, x, y) == \A s \in F : (x \in s) <=> (y \in s)

EquivClasses(F, U) == {{y \in U : SameSets(F, x, y)} : x \in U}

\* The universe and the classes of the family the current one was generated from.
OriginUniverse == UniverseOf(origin.C, origin.X)

OriginClasses == EquivClasses(origin.C, OriginUniverse)

(***************************************************************************)
(* Properties.                                                             *)
(***************************************************************************)

\* C1: sigma_algebra(C, X) returns the smallest algebra on X containing C:
\* it contains every member of C, is closed under complement in X and under
\* pairwise union, and is a subset of every algebra on X that contains C.
C1_SmallestAlgebra ==
    (op = "sigma_algebra" /\ ValidInput(C, X)) =>
        /\ ret.tag = "ok"
        /\ C \subseteq ret.fam
        /\ ClosedOn(ret.fam, UniverseOf(C, X))
        /\ \A G \in SUBSET (SUBSET UniverseOf(C, X)) :
              (C \subseteq G /\ IsAlgebraOn(G, UniverseOf(C, X)))
                 => ret.fam \subseteq G

\* C2: with X given explicitly, sigma_algebra(C, X) returns a result for
\* every family of subsets of X, and the result contains {} and X.
C2_ContainsEmptyAndX ==
    (op = "sigma_algebra" /\ X.given /\ ValidInput(C, X)) =>
        /\ ret.tag = "ok"
        /\ {} \in ret.fam
        /\ X.set \in ret.fam

\* C3: is_sigma_algebra(F, X) and is_sigma_algebra__brute(F, X) return the
\* same boolean on every family of subsets of X.
C3_OraclesAgree ==
    (op = "is_sigma_algebra" /\ ValidInput(C, X)) =>
        /\ ret.tag = "ok"
        /\ ret.flag = is_sigma_algebra__brute(C, X).flag

\* C4: is_sigma_algebra(F, X) returns True exactly when F contains {} and X
\* and is closed under complement in X and under pairwise union.
C4_CardinalityLawDecides ==
    (op = "is_sigma_algebra" /\ ValidInput(C, X)) =>
        /\ ret.tag = "ok"
        /\ ret.flag <=> IsAlgebraOn(C, UniverseOf(C, X))

\* C5: with the universe omitted, the algebra that sigma_algebra generated
\* passes both is_sigma_algebra and is_sigma_algebra__brute.
C5_GeneratedPassesBoth ==
    (/\ origin.has
     /\ ~ X.given
     /\ op \in {"is_sigma_algebra", "is_sigma_algebra__brute"}) =>
        ret.tag = "ok" /\ ret.flag

C5_Witness ==
    /\ origin.has
    /\ ~ X.given
    /\ op = "is_sigma_algebra"
    /\ Cardinality(C) >= 4
    /\ ret.flag

\* C6: sigma_algebra(C, X) has exactly 2^k members, k the number of classes
\* of elements of X that lie in the same sets of C.
C6_TwoToTheK ==
    (op = "sigma_algebra" /\ ValidInput(C, X)) =>
        /\ ret.tag = "ok"
        /\ Cardinality(ret.fam)
             = Pow2(Cardinality(EquivClasses(C, UniverseOf(C, X))))

\* C7: with the universe omitted, generating from a generated algebra
\* returns that algebra again.
C7_Idempotent ==
    (origin.has /\ ~ X.given /\ op = "sigma_algebra") =>
        ret.tag = "ok" /\ ret.fam = C

C7_Witness ==
    /\ origin.has
    /\ ~ X.given
    /\ op = "sigma_algebra"
    /\ ret.tag = "ok"
    /\ Cardinality(ret.fam) >= 4
    /\ origin.C # C

\* C8: the atoms of an algebra generated from k classes are k nonempty
\* members of it with no proper nonempty subset in it, pairwise disjoint,
\* and their union is X.
C8_Atoms ==
    (origin.has /\ op = "atom_set") =>
        /\ ret.tag = "ok"
        /\ Cardinality(ret.fam) = Cardinality(OriginClasses)
        /\ \A a \in ret.fam :
              /\ a # {}
              /\ a \in C
              /\ \A b \in C : (b \subseteq a /\ b # {}) => b = a
        /\ \A a \in ret.fam : \A b \in ret.fam : a # b => a \cap b = {}
        /\ UNION ret.fam = OriginUniverse

C8_Witness ==
    /\ origin.has
    /\ op = "atom_set"
    /\ ret.tag = "ok"
    /\ Cardinality(ret.fam) >= 2
    /\ \E a \in ret.fam : Cardinality(a) >= 2

\* C9: sets2matrix, sigma_algebra and is_sigma_algebra end in the
\* validation error, returning nothing, exactly when X is given and some
\* member of the family is not a subset of X.
C9_ValidationError ==
    (op \in {"sets2matrix", "sigma_algebra", "is_sigma_algebra"}) =>
        /\ (ret.tag = "Exception") <=>
              (X.given /\ \E s \in C : ~ (s \subseteq X.set))
        /\ (ret.tag = "Exception") =>
              (ret.mat = <<>> /\ ret.fam = {} /\ ret.flag = FALSE)

C9_Witness ==
    /\ op = "sigma_algebra"
    /\ X.given
    /\ \E s \in C : ~ (s \subseteq X.set)
    /\ ret.tag = "Exception"

\* C10: the classes unique_columns computes from the matrix of sets2matrix
\* partition the column indices 0..|X|-1, two indices share a class exactly
\* when their elements lie in the same sets of C, and there is at least one
\* class and at most |X| when X is nonempty.
C10_ClassesPartition ==
    (op = "unique_columns") =>
        LET xs == IterElems(ret.xset)
            n == Len(xs)
            k == Len(ret.cols)
        IN /\ \A i \in 0..(n - 1) :
                Cardinality({p \in 1..k : i \in ret.cols[p].val}) = 1
           /\ \A p \in 1..k : ret.cols[p].val \subseteq 0..(n - 1)
           /\ \A i \in 0..(n - 1) : \A j \in 0..(n - 1) :
                (\E p \in 1..k : {i, j} \subseteq ret.cols[p].val)
                   <=> SameSets(C, xs[i + 1], xs[j + 1])
           /\ (n > 0) => (1 <= k /\ k <= n)
           /\ (n = 0) => (k = 0)

====
